---- MODULE Spec2Model ----
(***************************************************************************)
(* Model of ascii_art.py: image_to_ascii(file_path, columns, scale, chars) *)
(* and the __main__ block that calls it.                                   *)
(*                                                                         *)
(* Python strings are sequences of one-character strings, so that          *)
(* str.startswith, "\n".join and string equality are computed, not         *)
(* assumed.  The text of an exception ({e} in the f-string of line 90) is  *)
(* kept as one element.                                                    *)
(*                                                                         *)
(* scale is a rational <<numerator, denominator>>.  Line 66 is evaluated   *)
(* exactly; for images of up to 5x5 pixels, scale <= 3 in steps of 1/2 and *)
(* columns <= 8 or 80, the IEEE double evaluation of                       *)
(* int(scale * (height / width) * columns) gives the same integer.  That   *)
(* is not so for all inputs: scale = 3.5, a 3x1 image and columns = 6 give *)
(* 6 in double arithmetic where the exact product is 7.                    *)
(*                                                                         *)
(* Behaviour of the imaging library that the code relies on:               *)
(*   - Image.open raises FileNotFoundError for a missing path,             *)
(*     PermissionError for an unreadable file, UnidentifiedImageError for  *)
(*     a file that is no image (closing the file it had opened);           *)
(*   - Image.open is lazy; resize() loads the pixel data, which closes the *)
(*     file of a single-frame image and keeps the file of a multi-frame    *)
(*     image (GIF, TIFF, ...) open;                                        *)
(*   - resize() raises ValueError unless both dimensions are >= 1;         *)
(*   - np.uint8 // 0 evaluates to 0 (with a RuntimeWarning) under numpy's  *)
(*     default error state.                                                *)
(***************************************************************************)
EXTENDS Integers, Sequences, FiniteSets

VARIABLES
    caller,        \* "library": image_to_ascii called directly; "script": the __main__ block
    file,          \* what file_path resolves to
    img,           \* the image stored in the file
    columns,       \* parameter columns
    scale,         \* parameter scale, <<numerator, denominator>>
    chars,         \* parameter chars (the ramp)
    pc,            \* position in image_to_ascii / __main__
    handle,        \* the file handle behind `image`: "none", "open", "closed"
    new_width,     \* local new_width
    new_height,    \* local new_height
    grid,          \* size of resized_image, <<width, height>>; <<>> before line 68
    pixel_values,  \* local pixel_values: rows of brightness values
    pixel_range,   \* local pixel_range
    ascii_art,     \* local ascii_art: list of row strings
    result,        \* the returned string
    outcome,       \* which return statement produced result
    stdout,        \* what the script printed
    outfile        \* content of ascii_art.txt, NoFile while it was not written

vars == <<caller, file, img, columns, scale, chars, pc, handle, new_width,
          new_height, grid, pixel_values, pixel_range, ascii_art, result,
          outcome, stdout, outfile>>

(***************************** bounds **************************************)
MaxDim == 2          \* source images are 1..MaxDim pixels wide and high
MaxCols == 3         \* columns ranges over -1..MaxCols (and StripeWidth)
MaxScaleHalves == 4  \* scale ranges over 0/2 .. MaxScaleHalves/2
MaxShortRamp == 2    \* prefixes of the default ramp of length 0..MaxShortRamp

(************************** program constants ******************************)
MaxPixel == 255
DefaultColumns == 80
DefaultScale == <<1, 2>>
DefaultRamp == <<" ", ".", ",", ":", ";", "o", "x", "%", "#", "@">>

ErrorPrefix == <<"E", "r", "r", "o", "r", ":">>
NotFoundMsg == <<"E", "r", "r", "o", "r", ":", " ", "T", "h", "e", " ", "f", "i", "l", "e", " ", "w", "a", "s", " ", "n", "o", "t", " ", "f", "o", "u", "n", "d", ".", " ", "C", "h", "e", "c", "k", " ", "t", "h", "e", " ", "f", "i", "l", "e", " ", "p", "a", "t", "h", ".">>
GenericPrefix == <<"A", "n", " ", "e", "r", "r", "o", "r", " ", "o", "c", "c", "u", "r", "r", "e", "d", ":", " ">>
Newline == "\n"
NoFile == <<"<no file>">>

(****************************** inputs *************************************)
\* A ramp whose characters spell "Error:" when picked in the right order.
ErrorRamp == <<"E", "o", "r", ":">>
\* A ramp of n characters (the default ramp repeated).
LongRamp(n) == [i \in 1..n |-> DefaultRamp[((i - 1) % Len(DefaultRamp)) + 1]]
Ramps ==
    {SubSeq(DefaultRamp, 1, k) : k \in 0..MaxShortRamp}
        \cup {DefaultRamp, ErrorRamp, LongRamp(MaxPixel), LongRamp(MaxPixel + 1)}

\* Brightness of the columns of the striped test image, left to right.
StripeLevels == <<0, 126, 126, 63, 126, 255>>
StripeWidth == Len(StripeLevels)

Dims == 1..MaxDim
GraySamples == {0, MaxPixel \div 2, MaxPixel - 1, MaxPixel}
Scales == {<<n, 2>> : n \in 0..MaxScaleHalves}
ColumnValues == (-1..MaxCols) \cup {StripeWidth}
FileKinds == {"missing", "unreadable", "corrupt", "image"}

NoImage == [w |-> 0, h |-> 0, multiframe |-> FALSE, kind |-> "none", gray |-> 0]
\* Solid images of every size, with sampled grey levels.
SolidImages ==
    {[w |-> w, h |-> h, multiframe |-> m, kind |-> "solid", gray |-> g] :
        w \in Dims, h \in Dims, m \in BOOLEAN, g \in GraySamples}
\* The 1x1 solid images of every grey level.
PixelImages ==
    {[w |-> 1, h |-> 1, multiframe |-> m, kind |-> "solid", gray |-> g] :
        m \in BOOLEAN, g \in 0..MaxPixel}
\* Images of vertical stripes, StripeWidth pixels wide.
StripeImages ==
    {[w |-> StripeWidth, h |-> h, multiframe |-> m, kind |-> "stripes", gray |-> 0] :
        h \in Dims, m \in BOOLEAN}

(************************* pure functions of the code **********************)
\* int(x) of Python for the rational num / den (den > 0): truncation toward zero.
IntTrunc(num, den) == IF num >= 0 THEN num \div den ELSE -((-num) \div den)

\* Variant of NewHeight: round() in place of int().
NewHeightRounded(sc, height, width, nw) ==
    IntTrunc(2 * sc[1] * height * nw + sc[2] * width, 2 * sc[2] * width)
\* Lines 64 and 66: int(scale * (height / width) * new_width).
NewHeight(sc, height, width, nw) ==
    IntTrunc(sc[1] * height * nw, sc[2] * width)

\* Variant of PixelRange: 256 // len(chars).
PixelRange256(ramp) == (MaxPixel + 1) \div Len(ramp)
\* Line 76: 255 // len(chars), for a non-empty ramp.
PixelRange(ramp) == MaxPixel \div Len(ramp)

\* Line 81: pixel // pixel_range on a numpy uint8 (0 when pixel_range is 0).
FloorDivide(pixel, range) == IF range = 0 THEN 0 ELSE pixel \div range

Min(a, b) == IF a <= b THEN a ELSE b

\* Variant of QuantIndex: the index wrapped with % in place of min().
QuantIndexWrapped(pixel, range, ramp) == FloorDivide(pixel, range) % Len(ramp)
\* Lines 81-82: the (0-based) ramp index of a pixel.
QuantIndex(pixel, range, ramp) == Min(FloorDivide(pixel, range), Len(ramp) - 1)

\* Variant of RowChars: the inner loop stops one pixel early.
RowCharsShort(row, range, ramp) ==
    [c \in 1..(Len(row) - 1) |-> ramp[QuantIndex(row[c], range, ramp) + 1]]
\* Lines 79-83: the string of one row.
RowChars(row, range, ramp) ==
    [c \in 1..Len(row) |-> ramp[QuantIndex(row[c], range, ramp) + 1]]

\* Line 86: "\n".join(rows).
RECURSIVE JoinLines(_)
JoinLines(rows) ==
    IF rows = <<>> THEN <<>>
    ELSE IF Len(rows) = 1 THEN rows[1]
    ELSE rows[1] \o <<Newline>> \o JoinLines(Tail(rows))

\* str.startswith.
StartsWith(s, prefix) ==
    Len(s) >= Len(prefix) /\ SubSeq(s, 1, Len(prefix)) = prefix

\* The brightness matrix of the resized, grey-scaled image (lines 68-72).  A
\* solid image stays solid under any resampling; the striped image is only
\* rendered at its own width, where every column keeps its brightness.
Brightness(image, r, c) ==
    IF image.kind = "solid" THEN image.gray
    ELSE StripeLevels[((c - 1) % StripeWidth) + 1]
PixelMatrix(image, w, h) ==
    [r \in 1..h |-> [c \in 1..w |-> Brightness(image, r, c)]]

\* Lines 87-90: the except clauses.  Every exception the body raises is a
\* subclass of Exception.
ExceptionClasses ==
    {"FileNotFoundError", "PermissionError", "UnidentifiedImageError",
     "ValueError", "ZeroDivisionError"}
OSErrorClasses == {"FileNotFoundError", "PermissionError", "UnidentifiedImageError"}
\* Variant of Handler: the generic clause placed before the FileNotFoundError clause.
HandlerOSErrorFirst(exc, desc) ==
    IF exc \in ExceptionClasses
        THEN [outcome |-> "generic", value |-> GenericPrefix \o <<desc>>]
        ELSE [outcome |-> "raised", value |-> <<>>]
\* Variant of Handler: the second clause catches OSError instead of Exception.
HandlerOSErrorOnly(exc, desc) ==
    IF exc = "FileNotFoundError"
        THEN [outcome |-> "not_found", value |-> NotFoundMsg]
    ELSE IF exc \in OSErrorClasses
        THEN [outcome |-> "generic", value |-> GenericPrefix \o <<desc>>]
        ELSE [outcome |-> "raised", value |-> <<>>]
\* Lines 87-90 as written.
Handler(exc, desc) ==
    IF exc = "FileNotFoundError"
        THEN [outcome |-> "not_found", value |-> NotFoundMsg]
    ELSE IF exc \in ExceptionClasses
        THEN [outcome |-> "generic", value |-> GenericPrefix \o <<desc>>]
        ELSE [outcome |-> "raised", value |-> <<>>]

\* Image.open (line 61): the exception it raises, "" when it succeeds.
OpenError(f) ==
    CASE f = "missing" -> "FileNotFoundError"
      [] f = "unreadable" -> "PermissionError"
      [] f = "corrupt" -> "UnidentifiedImageError"
      [] OTHER -> ""
OpenErrorText(f) ==
    CASE f = "missing" -> "[Errno 2] No such file or directory"
      [] f = "unreadable" -> "[Errno 13] Permission denied"
      [] f = "corrupt" -> "cannot identify image file"
      [] OTHER -> ""

(******************************* states ************************************)
Locals0 ==
    /\ pc = "start"
    /\ handle = "none"
    /\ new_width = 0
    /\ new_height = 0
    /\ grid = <<>>
    /\ pixel_values = <<>>
    /\ pixel_range = 0
    /\ ascii_art = <<>>
    /\ result = <<>>
    /\ outcome = "running"
    /\ stdout = <<>>
    /\ outfile = NoFile

InputsOK ==
    /\ file \in FileKinds
    /\ IF file = "image"
         THEN \/ img \in SolidImages
              \/ img \in PixelImages /\ columns = 1
              \/ img \in StripeImages /\ columns = StripeWidth
         ELSE img = NoImage

Init ==
    /\ caller \in {"library", "script"}
    /\ file \in FileKinds
    /\ img \in SolidImages \cup PixelImages \cup StripeImages \cup {NoImage}
    /\ columns \in ColumnValues \cup {DefaultColumns}
    /\ scale \in Scales
    /\ chars \in Ramps
    /\ InputsOK
    /\ caller = "script" =>
          /\ columns = DefaultColumns
          /\ scale = DefaultScale
          /\ chars = DefaultRamp
          /\ img \in SolidImages \cup {NoImage}
    /\ caller = "library" => columns \in ColumnValues
    /\ Locals0

\* An exception raised in the try block: control goes to lines 87-90.
Raise(exc, desc) ==
    /\ result' = Handler(exc, desc).value
    /\ outcome' = Handler(exc, desc).outcome
    /\ pc' = "returned"

\* Line 61: image = Image.open(file_path).
Open ==
    /\ pc = "start"
    /\ IF OpenError(file) # ""
         THEN /\ Raise(OpenError(file), OpenErrorText(file))
              /\ handle' = IF file = "corrupt" THEN "closed" ELSE "none"
         ELSE /\ pc' = "opened"
              /\ handle' = "open"
              /\ UNCHANGED <<result, outcome>>
    /\ UNCHANGED <<caller, file, img, columns, scale, chars, new_width, new_height,
                   grid, pixel_values, pixel_range, ascii_art, stdout, outfile>>

\* Lines 63-66: the size of the grid.
ComputeSize ==
    /\ pc = "opened"
    /\ new_width' = columns
    /\ new_height' = NewHeight(scale, img.h, img.w, columns)
    /\ pc' = "sized"
    /\ UNCHANGED <<caller, file, img, columns, scale, chars, handle, grid,
                   pixel_values, pixel_range, ascii_art, result, outcome, stdout,
                   outfile>>

\* Line 68: resized_image = image.resize((new_width, new_height)).
Resize ==
    /\ pc = "sized"
    /\ handle' = IF img.multiframe THEN handle ELSE "closed"
    /\ IF new_width < 1 \/ new_height < 1
         THEN /\ Raise("ValueError", "height and width must be > 0")
              /\ UNCHANGED grid
         ELSE /\ grid' = <<new_width, new_height>>
              /\ pc' = "resized"
              /\ UNCHANGED <<result, outcome>>
    /\ UNCHANGED <<caller, file, img, columns, scale, chars, new_width, new_height,
                   pixel_values, pixel_range, ascii_art, stdout, outfile>>

\* Lines 70-72: grayscale_image and pixel_values.
Convert ==
    /\ pc = "resized"
    /\ pixel_values' = PixelMatrix(img, grid[1], grid[2])
    /\ pc' = "gray"
    /\ UNCHANGED <<caller, file, img, columns, scale, chars, handle, new_width,
                   new_height, grid, pixel_range, ascii_art, result, outcome,
                   stdout, outfile>>

\* Lines 74-76: ascii_art = [] and pixel_range = 255 // len(chars).
ComputeRange ==
    /\ pc = "gray"
    /\ ascii_art' = <<>>
    /\ IF Len(chars) = 0
         THEN /\ Raise("ZeroDivisionError", "integer division or modulo by zero")
              /\ UNCHANGED pixel_range
         ELSE /\ pixel_range' = PixelRange(chars)
              /\ pc' = "loop"
              /\ UNCHANGED <<result, outcome>>
    /\ UNCHANGED <<caller, file, img, columns, scale, chars, handle, new_width,
                   new_height, grid, pixel_values, stdout, outfile>>

\* Lines 78-84: one iteration of the outer loop.
QuantizeRow ==
    /\ pc = "loop"
    /\ Len(ascii_art) < Len(pixel_values)
    /\ ascii_art' =
          Append(ascii_art,
                 RowChars(pixel_values[Len(ascii_art) + 1], pixel_range, chars))
    /\ UNCHANGED <<caller, file, img, columns, scale, chars, pc, handle, new_width,
                   new_height, grid, pixel_values, pixel_range, result, outcome,
                   stdout, outfile>>

\* Line 86: return "\n".join(ascii_art).
Return ==
    /\ pc = "loop"
    /\ Len(ascii_art) = Len(pixel_values)
    /\ result' = JoinLines(ascii_art)
    /\ outcome' = "art"
    /\ pc' = "returned"
    /\ UNCHANGED <<caller, file, img, columns, scale, chars, handle, new_width,
                   new_height, grid, pixel_values, pixel_range, ascii_art, stdout,
                   outfile>>

\* Lines 95-101: the script branches on the prefix of the returned string.
MainBranch ==
    /\ caller = "script"
    /\ pc = "returned"
    /\ outcome # "raised"
    /\ IF StartsWith(result, ErrorPrefix)
         THEN /\ stdout' = result
              /\ UNCHANGED outfile
         ELSE /\ outfile' = result
              /\ UNCHANGED stdout
    /\ pc' = "exit"
    /\ UNCHANGED <<caller, file, img, columns, scale, chars, handle, new_width,
                   new_height, grid, pixel_values, pixel_range, ascii_art, result,
                   outcome>>

\* The image object is reclaimed by the runtime some time after the call has
\* returned (the code neither closes it nor uses a with block); only then is a
\* handle that is still open closed.
Finalize ==
    /\ pc \in {"returned", "exit"}
    /\ handle = "open"
    /\ handle' = "closed"
    /\ UNCHANGED <<caller, file, img, columns, scale, chars, pc, new_width,
                   new_height, grid, pixel_values, pixel_range, ascii_art, result,
                   outcome, stdout, outfile>>

Next ==
    \/ Open
    \/ ComputeSize
    \/ Resize
    \/ Convert
    \/ ComputeRange
    \/ QuantizeRow
    \/ Return
    \/ MainBranch
    \/ Finalize

Spec == Init /\ [][Next]_vars

(***************************************************************************)
(* Properties                                                              *)
(***************************************************************************)
Returned == pc \in {"returned", "exit"}

\* The exact value of scale * (height / width) * columns is ProductNum / ProductDen.
ProductNum == scale[1] * img.h * columns
ProductDen == scale[2] * img.w

\* Positions of the line breaks of a string, and its rows.
Breaks(s) == {i \in 1..Len(s) : s[i] = Newline}
RowCount(s) == Cardinality(Breaks(s)) + 1
RowsHaveWidth(s, w) ==
    /\ Len(s) = RowCount(s) * (w + 1) - 1
    /\ \A i \in Breaks(s) : i % (w + 1) = 0

Contains(s, sub) ==
    \E i \in 1..(Len(s) - Len(sub) + 1) : SubSeq(s, i, i + Len(sub) - 1) = sub

C2_WhiteIsLastChar ==
    (pc \in {"loop", "returned", "exit"} /\ outcome \in {"running", "art"})
    => /\ \A p \in 0..MaxPixel :
             QuantIndex(p, pixel_range, chars) \in 0..(Len(chars) - 1)
       /\ QuantIndex(MaxPixel, pixel_range, chars) = Len(chars) - 1
       /\ \A r \in 1..Len(ascii_art) : \A c \in 1..Len(ascii_art[r]) :
             pixel_values[r][c] = MaxPixel => ascii_art[r][c] = chars[Len(chars)]

\* C3 (as claimed): when the script ran and image_to_ascii signalled an error
\* of either kind, the script printed the message and did not write
\* ascii_art.txt; the file is written only for a valid art string.
C3_ErrorsAreNotWritten ==
    (caller = "script" /\ pc = "exit")
    => /\ outcome \in {"not_found", "generic"} =>
             (stdout = result /\ outfile = NoFile)
       /\ outfile # NoFile => outcome = "art"

ExpectedFailure ==
    IF file \in {"unreadable", "corrupt"} THEN OpenErrorText(file)
    ELSE IF file = "missing" THEN ""
    ELSE IF columns < 1 \/ IntTrunc(ProductNum, ProductDen) < 1
        THEN "height and width must be > 0"
    ELSE IF Len(chars) = 0 THEN "integer division or modulo by zero"
    ELSE ""

\* C5: every failure other than a missing file (undecodable file, empty ramp,
\* columns <= 0, scale <= 0 or any other input giving invalid dimensions) makes
\* the call return the generic message carrying the failure description; no
\* exception reaches the caller and no partly built art is returned.
C5_FailuresGiveGenericMessage ==
    (Returned /\ ExpectedFailure # "")
    => /\ outcome = "generic"
       /\ result = GenericPrefix \o <<ExpectedFailure>>
       /\ ascii_art = <<>>

C5_Witness ==
    /\ pc = "returned" /\ outcome = "generic"
    /\ file = "image" /\ grid # <<>> /\ Len(chars) = 0

\* C6 (as claimed): after the call has returned, on the success path, the
\* FileNotFound path and the generic-error path, no file handle acquired by the
\* call is still open.
C6_HandleReleasedOnReturn == Returned => handle # "open"

\* C7: for every non-empty ramp and grey values p1 < p2 in 0..255, the index
\* chosen for p1 is at most the index chosen for p2.  Stated for neighbouring
\* values p, p + 1 of the whole range (from which every pair follows, <= being
\* transitive) and for every pair of pixels of the rendered image.
C7_IndexIsMonotone ==
    (pc \in {"loop", "returned", "exit"} /\ outcome \in {"running", "art"})
    => /\ \A p \in 0..(MaxPixel - 1) :
             QuantIndex(p, pixel_range, chars) <= QuantIndex(p + 1, pixel_range, chars)
       /\ \A r \in 1..Len(pixel_values) :
             \A p1, p2 \in {pixel_values[r][c] : c \in 1..Len(pixel_values[r])} :
                 p1 < p2 =>
                     QuantIndex(p1, pixel_range, chars) <= QuantIndex(p2, pixel_range, chars)

C7_Witness ==
    /\ Returned /\ outcome = "art"
    /\ \E c1, c2 \in 1..Len(pixel_values[1]) :
          /\ pixel_values[1][c1] < pixel_values[1][c2]
          /\ QuantIndex(pixel_values[1][c1], pixel_range, chars)
                < QuantIndex(pixel_values[1][c2], pixel_range, chars)
          /\ ascii_art[1][c1] # ascii_art[1][c2]

\* The character the spec's formula gives for grey value p and a ramp of at
\* most 255 characters: ramp[min(floor(p / pixel_range), len(ramp) - 1)].
SpecChar(p, ramp) ==
    ramp[Min(p \div (MaxPixel \div Len(ramp)), Len(ramp) - 1) + 1]

OnePixelCall ==
    /\ file = "image" /\ img.kind = "solid" /\ img.w = 1 /\ img.h = 1
    /\ columns = 1 /\ scale[1] > 0 /\ Len(chars) >= 1

\* C8 (as claimed): a 1x1 solid image of grey value p, rendered with
\* columns = 1, any scale > 0 and any non-empty ramp, gives a string of exactly
\* one character, ramp[min(floor(p / pixel_range), len(ramp) - 1)].  (Ramps of
\* more than 255 characters, where pixel_range is 0, are left to C2.)
C8_OnePixelAnyScale ==
    (Returned /\ OnePixelCall /\ Len(chars) <= MaxPixel)
    => result = <<SpecChar(img.gray, chars)>>

\* C8 (amended): for such a call, a scale with 1 <= scale < 2 gives exactly one
\* character, ramp[min(floor(p / pixel_range), len(ramp) - 1)] (ramp[0] when the
\* ramp has more than 255 characters); a scale below 1 gives the generic error
\* message; a scale of 2 or more gives int(scale) rows of that one character.
C8_OnePixelByScale ==
    (Returned /\ OnePixelCall)
    => LET ch == IF Len(chars) <= MaxPixel THEN SpecChar(img.gray, chars)
                 ELSE chars[1]
           n == scale[1] \div scale[2]
       IN  /\ n = 0 => /\ outcome = "generic"
                       /\ result = GenericPrefix \o <<"height and width must be > 0">>
           /\ n = 1 => /\ outcome = "art"
                       /\ result = <<ch>>
           /\ n >= 2 => /\ outcome = "art"
                        /\ RowCount(result) = n
                        /\ RowsHaveWidth(result, 1)
                        /\ \A i \in 1..Len(result) :
                              result[i] # Newline => result[i] = ch

C8_Witness ==
    /\ pc = "returned" /\ OnePixelCall /\ outcome = "art"
    /\ scale = <<2, 2>>
    /\ Len(chars) = Len(DefaultRamp)
    /\ img.gray = 63
    /\ result = <<",">>

\* round(x) to the nearest integer, halves up, of the product (which is >= 0).
RoundedProduct == (2 * ProductNum + ProductDen) \div (2 * ProductDen)

\* C9 (as claimed): the height of the resized grid is
\* round(scale * aspect_ratio * columns), rounding to nearest.
C9_HeightIsRounded ==
    (grid # <<>> /\ columns >= 1 /\ scale[1] > 0)
    => grid[2] = RoundedProduct

\* C9 (amended): the height of the resized grid is
\* int(scale * aspect_ratio * columns), the product with its fractional part
\* dropped, and its width is columns; when that height is 0 no grid is made.
C9_HeightIsTruncated ==
    /\ (grid # <<>> /\ columns >= 1 /\ scale[1] > 0)
       => grid = <<columns, ProductNum \div ProductDen>>
    /\ (file = "image" /\ columns >= 1 /\ ProductNum \div ProductDen = 0)
       => grid = <<>>

C9_Witness ==
    /\ pc = "resized"
    /\ grid # <<>>
    /\ 2 * (ProductNum % ProductDen) >= ProductDen
    /\ grid[2] = RoundedProduct - 1

\* C10 (as claimed): a successfully rendered art string never begins with
\* "Error:" and never equals or looks like a string the error paths return,
\* whatever the image, columns and ramp.
C10_ArtIsNeverAnErrorString ==
    (Returned /\ outcome = "art")
    => /\ ~StartsWith(result, ErrorPrefix)
       /\ result # NotFoundMsg
       /\ ~StartsWith(result, GenericPrefix)

====
